---- MODULE Spec2Model ----
(***************************************************************************)
(* Model of friends_chatbot/friend_character_chatbox.py:                   *)
(*   - remove_paranthesis (re.sub of \(.*?\) by the empty string),         *)
(*   - CharacterChatBot.__init__ (the order of login, repo lookup,         *)
(*     load_data, train, hub pushes and load_model),                       *)
(*   - CharacterChatBot.load_data (dropna, cleaning, number_of_words,      *)
(*     response flags, indexes_to_take and the prompt-building loop).      *)
(* A text is a sequence of one-character strings; the f-string pieces of   *)
(* the system prompt are kept as whole chunks.  Row labels and iloc        *)
(* positions are 0-based as in pandas.                                     *)
(***************************************************************************)
EXTENDS Integers, Sequences, FiniteSets, TLC

VARIABLES
    character_name,     \* constructor argument (None when omitted)
    huggingface_token,  \* constructor argument (None when omitted)
    table,              \* rows of the CSV file at data_path, as read_csv sees them
    hub_repo,           \* does the repository model_path exist on the hub
    repo_found,         \* what repo_exists returned: "unchecked", "found", "missing"
    pc,                 \* position of the constructor
    error,              \* exception that ended the constructor, "none" otherwise
    calls,              \* history: the steps started so far, in order
    model,              \* self.model
    df,                 \* friends_transcript_df
    indexes_to_take,    \* labels selected for the character
    k,                  \* position of the for loop in indexes_to_take
    prompts,            \* the list prompts
    emitted,            \* history: the label each element of prompts was built for
    notices,            \* the values printed as "Index .. is out of bounds"
    dataset,            \* the value load_data returned
    load_data_state,    \* "idle", "running", "returned" or "raised"
    text,               \* argument of remove_paranthesis (function check)
    cleaned,            \* its result
    words,              \* number_of_words of the result
    clean_done          \* has the function been applied

vars == <<character_name, huggingface_token, table, hub_repo, repo_found, pc, error, calls,
          model, df, indexes_to_take, k, prompts, emitted, notices, dataset,
          load_data_state, text, cleaned, words, clean_done>>

ctorVars == <<character_name, huggingface_token, table, hub_repo, repo_found, pc, error,
              calls, model, df, indexes_to_take, k, prompts, emitted, notices,
              dataset, load_data_state>>

cleanVars == <<text, cleaned, words, clean_done>>

----------------------------------------------------------------------------
(* Bounds *)

MaxRows == 5

MaxTextLen == 4

----------------------------------------------------------------------------
(* Texts *)

NL == "\n"

SP == " "

LP == "("

RP == ")"

Alphabet == {LP, RP, "a", SP, NL}

Whitespace == {SP, NL}

SeqsUpTo(S, n) == UNION {[1..m -> S] : m \in 0..n}

Min(S) == CHOOSE x \in S : \A y \in S : x <= y

\* Where the match of \(.*?\) that starts at p ends, 0 when there is none.
\* '.' does not match a newline and '*?' takes the nearest ')'.
MatchEndDotAll(t, p) ==
    LET ends == {q \in (p+1)..Len(t) : t[q] = RP}
    IN  IF ends = {} THEN 0 ELSE Min(ends)

MatchEnd(t, p) ==
    LET ends == {q \in (p+1)..Len(t) :
                    /\ t[q] = RP
                    /\ \A j \in (p+1)..(q-1) : t[j] # NL}
    IN  IF ends = {} THEN 0 ELSE Min(ends)

RECURSIVE SubFirstOnly(_, _)
SubFirstOnly(t, p) ==
    IF p > Len(t) THEN <<>>
    ELSE IF t[p] = LP /\ MatchEnd(t, p) # 0
         THEN SubSeq(t, MatchEnd(t, p) + 1, Len(t))
         ELSE <<t[p]>> \o SubFirstOnly(t, p + 1)

\* re.sub(pattern, '', t) from position p on: leftmost matches, not overlapping.
RECURSIVE Sub(_, _)
Sub(t, p) ==
    IF p > Len(t) THEN <<>>
    ELSE IF t[p] = LP /\ MatchEnd(t, p) # 0
         THEN Sub(t, MatchEnd(t, p) + 1)
         ELSE <<t[p]>> \o Sub(t, p + 1)

remove_paranthesis(t) == Sub(t, 1)

\* str.strip()
RECURSIVE LStrip(_)
LStrip(t) ==
    IF t # <<>> /\ Head(t) \in Whitespace THEN LStrip(Tail(t)) ELSE t

RECURSIVE RStrip(_)
RStrip(t) ==
    IF t # <<>> /\ t[Len(t)] \in Whitespace
    THEN RStrip(SubSeq(t, 1, Len(t) - 1)) ELSE t

Strip(t) == RStrip(LStrip(t))

\* str.split(" "): every separator ends a piece, empty pieces are kept
Split(t, sep) ==
    LET RECURSIVE Go(_, _, _)
        Go(i, cur, acc) ==
            IF i > Len(t) THEN Append(acc, cur)
            ELSE IF t[i] = sep
                 THEN Go(i + 1, <<>>, Append(acc, cur))
                 ELSE Go(i + 1, Append(cur, t[i]), acc)
    IN  Go(1, <<>>, <<>>)

number_of_words(dialogue) == Len(Split(Strip(dialogue), SP))

----------------------------------------------------------------------------
(* Inputs *)

None == "None"

\* the keys of character_models
character_models ==
    {"Rachel", "Ross", "Chandler", "Monica", "Joey", "Phoebe"}

CharacterNames == {None, "", "Rachel", "Gunther"}

Tokens == {None, "hf_token"}

Six == <<"a", SP, "a", SP, "a", SP, "a", SP, "a", SP, "a">>

Aside == <<"a", SP, LP, "a", RP, SP, "a", SP, "a", SP, "a", SP, "a">>

Short == <<LP, "a", RP, SP, "a", SP, "a">>

OnlyAction == <<LP, "a", RP>>

\* read_csv turns an empty field into NaN: the empty text stands for it
RowSamples ==
    { [Speaker |-> "Ross",   Dialogue |-> <<>>],
      [Speaker |-> "Rachel", Dialogue |-> Six],
      [Speaker |-> "Rachel", Dialogue |-> Aside],
      [Speaker |-> "Ross",   Dialogue |-> Short],
      [Speaker |-> "Rachel", Dialogue |-> OnlyAction] }

IsNull(row) == row.Speaker = "" \/ row.Dialogue = <<>>

----------------------------------------------------------------------------
(* load_data *)

\* read_csv numbers the rows 0, 1, ...; dropna keeps the labels of the rows it keeps
RECURSIVE DropNaFrom(_, _)
DropNaFrom(t, i) ==
    IF i > Len(t) THEN <<>>
    ELSE IF IsNull(t[i]) THEN DropNaFrom(t, i + 1)
         ELSE <<[index |-> i - 1, Speaker |-> t[i].Speaker,
                 Dialogue |-> t[i].Dialogue]>> \o DropNaFrom(t, i + 1)

dropna(t) == DropNaFrom(t, 1)

\* the Dialogue column cleaned and the number_of_words column added
WithWords(d) ==
    [j \in 1..Len(d) |->
        LET c == remove_paranthesis(d[j].Dialogue)
        IN  [index |-> d[j].index, Speaker |-> d[j].Speaker, Dialogue |-> c,
             number_of_words |-> number_of_words(c)]]

response_flag(row, character) ==
    IF row.Speaker = character /\ row.number_of_words > 5 THEN 1 ELSE 0

RECURSIVE LabelsFrom(_, _, _)
LabelsFrom(d, character, j) ==
    IF j > Len(d) THEN <<>>
    ELSE IF response_flag(d[j], character) = 1 /\ d[j].index > 0
         THEN <<d[j].index>> \o LabelsFrom(d, character, j + 1)
         ELSE LabelsFrom(d, character, j + 1)

Reverse(s) == [j \in 1..Len(s) |-> s[Len(s) + 1 - j]]

IndexesToTakeReversed(d, character) == Reverse(LabelsFrom(d, character, 1))

IndexesToTake(d, character) == LabelsFrom(d, character, 1)

system_prompt(character) ==
    <<NL, "You are ", character,
      " from the Friends TV Show. Your responses should reflect ",
      character, "'s personality and speech patterns.", NL>>

\* DataFrame.iloc[n]: the row at position n, counted from 0
iloc(d, n) == d[n + 1]

InBounds(d, n) == 0 <= n /\ n < Len(d)

----------------------------------------------------------------------------
(* CharacterChatBot.__init__ *)

Init ==
    /\ character_name \in CharacterNames
    /\ huggingface_token \in Tokens
    /\ table \in SeqsUpTo(RowSamples, MaxRows)
    /\ hub_repo \in BOOLEAN
    /\ repo_found = "unchecked"
    /\ pc = "start"
    /\ error = "none"
    /\ calls = <<>>
    /\ model = "unset"
    /\ df = <<>>
    /\ indexes_to_take = <<>>
    /\ k = 1
    /\ prompts = <<>>
    /\ emitted = <<>>
    /\ notices = <<>>
    /\ dataset = <<>>
    /\ load_data_state = "idle"
    /\ text = <<>>
    /\ cleaned = <<>>
    /\ words = 0
    /\ clean_done = FALSE

loadVars == <<df, indexes_to_take, k, prompts, emitted, notices, dataset,
              load_data_state>>

inputVars == <<character_name, huggingface_token, table>>

hubVars == <<hub_repo, repo_found>>

Raise(e) ==
    /\ pc' = "error"
    /\ error' = e

\* Is the name accepted by the check at the top of __init__
NameAccepted(name) == name # None

\* lines 33-41: the character_name check and the attribute assignments
Construct ==
    /\ pc = "start"
    /\ IF NameAccepted(character_name)
       THEN /\ pc' = IF huggingface_token # None THEN "login" ELSE "repo_exists"
            /\ error' = error
       ELSE Raise("ValueError")
    /\ UNCHANGED <<inputVars, hubVars, calls, model, loadVars, cleanVars>>

\* lines 43-44: huggingface_hub.login, which may fail
Login ==
    /\ pc = "login"
    /\ calls' = Append(calls, "login")
    /\ \/ pc' = "repo_exists" /\ error' = error
       \/ Raise("HubError")
    /\ UNCHANGED <<inputVars, hubVars, model, loadVars, cleanVars>>

\* Which branch of line 46 is taken
AfterRepoCheckAlwaysTrain(exists) == "load_data"

AfterRepoCheck(exists) == IF exists THEN "load_model" ELSE "load_data"

\* line 46: huggingface_hub.repo_exists, which may fail
RepoExists ==
    /\ pc = "repo_exists"
    /\ calls' = Append(calls, "repo_exists")
    /\ \/ /\ pc' = AfterRepoCheck(hub_repo)
          /\ repo_found' = IF hub_repo THEN "found" ELSE "missing"
          /\ error' = error
       \/ Raise("HubError") /\ repo_found' = repo_found
    /\ UNCHANGED <<inputVars, hub_repo, model, loadVars, cleanVars>>

\* Does friends_transcript_df have the column f'{character}_response_flag'
HasFlagColumnAlways(character) == TRUE

HasFlagColumn(character) == character \in character_models

\* lines 207-235: read_csv, dropna, cleaning, number_of_words, the response
\* flags of the six characters and indexes_to_take.  Selecting the flag
\* column of a name outside character_models raises KeyError.
LoadDataPrepare ==
    /\ pc = "load_data"
    /\ calls' = Append(calls, "load_data")
    /\ df' = WithWords(dropna(table))
    /\ IF HasFlagColumn(character_name)
       THEN /\ indexes_to_take' = IndexesToTake(df', character_name)
            /\ load_data_state' = "running"
            /\ pc' = "loop"
            /\ error' = error
       ELSE /\ indexes_to_take' = indexes_to_take
            /\ load_data_state' = "raised"
            /\ Raise("KeyError")
    /\ UNCHANGED <<inputVars, hubVars, model, k, prompts, emitted, notices,
                   dataset, cleanVars>>

\* lines 238-251: one iteration of the loop over indexes_to_take
LoadDataIter ==
    /\ pc = "loop"
    /\ k <= Len(indexes_to_take)
    /\ LET ind == indexes_to_take[k]
           prompt == system_prompt(character_name)
       IN  IF InBounds(df, ind - 1)
           THEN IF InBounds(df, ind)
                THEN /\ prompts' = Append(prompts,
                                      prompt \o iloc(df, ind - 1).Dialogue
                                             \o <<NL>>
                                             \o iloc(df, ind).Dialogue)
                     /\ emitted' = Append(emitted, ind)
                     /\ k' = k + 1
                     /\ UNCHANGED <<pc, error, notices, load_data_state>>
                ELSE \* iloc[ind] past the last position raises IndexError
                     /\ load_data_state' = "raised"
                     /\ Raise("IndexError")
                     /\ UNCHANGED <<prompts, emitted, k, notices>>
           ELSE /\ notices' = Append(notices, ind - 1)
                /\ k' = k + 1
                /\ UNCHANGED <<pc, error, prompts, emitted, load_data_state>>
    /\ UNCHANGED <<inputVars, hubVars, calls, model, df, indexes_to_take,
                   dataset, cleanVars>>

\* lines 253-256: the dataset is built from prompts and returned
LoadDataReturn ==
    /\ pc = "loop"
    /\ k > Len(indexes_to_take)
    /\ dataset' = prompts
    /\ load_data_state' = "returned"
    /\ pc' = "train"
    /\ UNCHANGED <<inputVars, hubVars, error, calls, model, df,
                   indexes_to_take, k, prompts, emitted, notices, cleanVars>>

\* lines 115-183: loading the base model, trainer.train() and the local save
Train ==
    /\ pc = "train"
    /\ calls' = Append(calls, "train")
    /\ \/ pc' = "push_model" /\ error' = error
       \/ Raise("TrainError")
    /\ UNCHANGED <<inputVars, hubVars, model, loadVars, cleanVars>>

\* lines 185-195: model.push_to_hub(self.model_path)
PushModel ==
    /\ pc = "push_model"
    /\ calls' = Append(calls, "push_model")
    /\ \/ pc' = "push_tokenizer" /\ error' = error /\ hub_repo' = TRUE
       \/ Raise("HubError") /\ hub_repo' = hub_repo
    /\ UNCHANGED <<inputVars, repo_found, model, loadVars, cleanVars>>

\* lines 196-200: tokenizer.push_to_hub(self.model_path)
PushTokenizer ==
    /\ pc = "push_tokenizer"
    /\ calls' = Append(calls, "push_tokenizer")
    /\ \/ pc' = "load_model" /\ error' = error
       \/ Raise("HubError")
    /\ UNCHANGED <<inputVars, hubVars, model, loadVars, cleanVars>>

\* lines 47 and 52 with load_model (85-97): self.model is assigned on return
LoadModel ==
    /\ pc = "load_model"
    /\ calls' = Append(calls, "load_model")
    /\ \/ pc' = "done" /\ error' = error /\ model' = "pipeline"
       \/ Raise("LoadError") /\ model' = model
    /\ UNCHANGED <<inputVars, hubVars, loadVars, cleanVars>>

Next ==
    \/ Construct
    \/ Login
    \/ RepoExists
    \/ LoadDataPrepare
    \/ LoadDataIter
    \/ LoadDataReturn
    \/ Train
    \/ PushModel
    \/ PushTokenizer
    \/ LoadModel

Spec == Init /\ [][Next]_vars

----------------------------------------------------------------------------
(* remove_paranthesis and number_of_words on every short text *)

InitClean ==
    /\ text \in SeqsUpTo(Alphabet, MaxTextLen)
    /\ cleaned = <<>>
    /\ words = 0
    /\ clean_done = FALSE
    /\ character_name = "Rachel"
    /\ huggingface_token = None
    /\ table = <<>>
    /\ hub_repo = FALSE
    /\ repo_found = "unchecked"
    /\ pc = "start"
    /\ error = "none"
    /\ calls = <<>>
    /\ model = "unset"
    /\ df = <<>>
    /\ indexes_to_take = <<>>
    /\ k = 1
    /\ prompts = <<>>
    /\ emitted = <<>>
    /\ notices = <<>>
    /\ dataset = <<>>
    /\ load_data_state = "idle"

\* lines 210-212 applied to one Dialogue value
Clean ==
    /\ ~clean_done
    /\ cleaned' = remove_paranthesis(text)
    /\ words' = number_of_words(cleaned')
    /\ clean_done' = TRUE
    /\ UNCHANGED <<text, ctorVars>>

NextClean == Clean

SpecClean == InitClean /\ [][NextClean]_vars

----------------------------------------------------------------------------
(* Vocabulary of the properties *)

Range(s) == {s[j] : j \in 1..Len(s)}

IsPrefix(s, t) == Len(s) <= Len(t) /\ SubSeq(t, 1, Len(s)) = s

Count(s, x) == Cardinality({j \in 1..Len(s) : s[j] = x})

\* t has a substring matching \(.*?\): a '(' and a later ')' with no newline between
HasParenSpan(t) ==
    \E p \in 1..Len(t) : \E q \in (p+1)..Len(t) :
        /\ t[p] = LP
        /\ t[q] = RP
        /\ \A j \in (p+1)..(q-1) : t[j] # NL

NoParens(t) == LP \notin Range(t) /\ RP \notin Range(t)

\* nesting depth of t after its first n characters
RECURSIVE Depth(_, _)
Depth(t, n) ==
    IF n = 0 THEN 0
    ELSE Depth(t, n - 1) + (IF t[n] = LP THEN 1 ELSE IF t[n] = RP THEN -1 ELSE 0)

Balanced(t) ==
    /\ Depth(t, Len(t)) = 0
    /\ \A n \in 0..Len(t) : Depth(t, n) >= 0

\* number of whitespace-delimited tokens: maximal runs of non-whitespace characters
word_count(t) ==
    Cardinality({j \in 1..Len(t) :
                    /\ t[j] \notin Whitespace
                    /\ (j = 1 \/ t[j-1] \in Whitespace)})

\* position in d (from 1) of the row labelled i
PosOf(d, i) == CHOOSE p \in 1..Len(d) : d[p].index = i

LoadDataEnded == load_data_state \in {"returned", "raised"}

----------------------------------------------------------------------------
(* Properties *)

\* C1: every emitted prompt is the preamble, then the cleaned dialogue of the
\* row that precedes the flagged row i in the transcript (the table after
\* dropna), then one newline, then the cleaned dialogue of row i itself.
C1_PromptOfFlaggedRow ==
    \A j \in 1..Len(prompts) :
        LET pos == PosOf(df, emitted[j])
        IN  pos > 1 =>
                prompts[j] = system_prompt(character_name)
                               \o df[pos - 1].Dialogue \o <<NL>> \o df[pos].Dialogue

\* C2: a row i of the cleaned transcript is in indexes_to_take iff its speaker
\* is the character, its dialogue has more than 5 whitespace-delimited tokens
\* and i > 0.
C2_FlagIffPolicy ==
    load_data_state \in {"running", "returned"} =>
        \A j \in 1..Len(df) :
            (df[j].index \in Range(indexes_to_take))
                <=> /\ df[j].Speaker = character_name
                    /\ word_count(df[j].Dialogue) > 5
                    /\ df[j].index > 0

\* C3: number_of_words is 0 for a cleaned dialogue that is empty or only whitespace.
C3_EmptyHasNoWords ==
    load_data_state # "idle" =>
        \A j \in 1..Len(df) :
            Strip(df[j].Dialogue) = <<>> => df[j].number_of_words = 0

\* C4: every flagged index whose predecessor is outside the valid positions is
\* skipped with a notice naming the index, without an exception, and
\* load_data still returns the dataset.
C4_SkipNeverAborts ==
    LoadDataEnded =>
        \A j \in 1..Len(indexes_to_take) :
            ~InBounds(df, indexes_to_take[j] - 1) =>
                /\ load_data_state = "returned"
                /\ (indexes_to_take[j] - 1) \in Range(notices)
                /\ indexes_to_take[j] \notin Range(emitted)

\* C5: with an empty or missing character name the constructor raises at once:
\* no login, no repository lookup, no load_data, no training, no load_model,
\* and no model.
C5_EmptyNameFailsFast ==
    character_name \in {None, ""} =>
        /\ pc \in {"start", "error"}
        /\ calls = <<>>
        /\ model = "unset"

\* C6: the result of remove_paranthesis has no substring matching \(.*?\), and
\* a text without parentheses is returned as it is.
C6_NoSpanLeft ==
    clean_done =>
        /\ ~HasParenSpan(cleaned)
        /\ (NoParens(text) => cleaned = text)

C6_Witness ==
    /\ clean_done
    /\ HasParenSpan(text)
    /\ RP \in Range(cleaned)
    /\ Len(cleaned) < Len(text)

\* C7 as stated: a text whose parentheses are unbalanced or absent is returned
\* unchanged.
C7_UnbalancedUnchanged ==
    (clean_done /\ (~Balanced(text) \/ NoParens(text))) => cleaned = text

\* C7 amended: a text in which no '(' is followed later on the same line by a
\* ')' is returned unchanged.
C7_NoSpanUnchanged ==
    (clean_done /\ ~HasParenSpan(text)) => cleaned = text

C7_Witness ==
    /\ clean_done
    /\ ~Balanced(text)
    /\ LP \in Range(text)
    /\ RP \in Range(text)
    /\ ~HasParenSpan(text)
    /\ cleaned = text

\* C8: the returned dataset has one prompt for each flagged index that was not
\* skipped, in ascending order of the index: as many examples as flagged
\* indices less the skipped ones, none before one built from a smaller index.
C8_OnePromptPerKeptIndexAscending ==
    load_data_state = "returned" =>
        /\ dataset = prompts
        /\ Len(dataset) = Len(emitted)
        /\ Len(dataset) = Len(indexes_to_take) - Len(notices)
        /\ \A a, b \in 1..Len(emitted) : a < b => emitted[a] < emitted[b]
        /\ Range(emitted) = Range(indexes_to_take) \ {n + 1 : n \in Range(notices)}
        /\ Cardinality(Range(indexes_to_take)) = Len(indexes_to_take)

C8_Witness ==
    /\ load_data_state = "returned"
    /\ Len(indexes_to_take) >= 2
    /\ Len(dataset) >= 1
    /\ Len(notices) >= 1

\* C9 as stated: on an empty table load_data raises before any row is
\* processed and no example is produced.
C9_EmptyTableRaises ==
    (table = <<>> /\ LoadDataEnded) =>
        /\ load_data_state = "raised"
        /\ prompts = <<>>

\* C9 amended: on an empty table load_data processes no row and produces no
\* example; it raises (KeyError) exactly when the character is not a key of
\* character_models, and otherwise returns an empty dataset.
C9_EmptyTableNoExamples ==
    (table = <<>> /\ load_data_state # "idle") =>
        /\ df = <<>>
        /\ indexes_to_take = <<>>
        /\ prompts = <<>>
        /\ notices = <<>>
        /\ dataset = <<>>
        /\ (load_data_state = "raised") <=> (character_name \notin character_models)
        /\ (load_data_state = "raised") => error = "KeyError"
        /\ error \notin {"ValueError", "IndexError"}

C9_Witness ==
    /\ table = <<>>
    /\ load_data_state = "returned"
    /\ dataset = <<>>
    /\ error = "none"

LoginCalls == IF huggingface_token # None THEN <<"login">> ELSE <<>>

\* C10: with a character name given, a repository found on the hub leads to
\* load_model only (no load_data, train or push); a missing one to load_data,
\* train, push of model and tokenizer, then load_model, in this order.
\* load_model runs once, after the repository check, and a constructor that
\* ended with an error has left self.model unset.
C10_ConstructorOrder ==
    character_name # None =>
        /\ repo_found = "unchecked" =>
               IsPrefix(calls, LoginCalls \o <<"repo_exists">>)
        /\ repo_found = "found" =>
               IsPrefix(calls, LoginCalls \o <<"repo_exists", "load_model">>)
        /\ repo_found = "missing" =>
               IsPrefix(calls, LoginCalls \o <<"repo_exists", "load_data", "train",
                                              "push_model", "push_tokenizer",
                                              "load_model">>)
        /\ pc = "done" => Count(calls, "load_model") = 1
        /\ pc = "error" => model = "unset"
        /\ model # "unset" => pc = "done" /\ calls[Len(calls)] = "load_model"

C10_Witness ==
    /\ pc = "done"
    /\ repo_found = "missing"
    /\ model = "pipeline"
    /\ "push_tokenizer" \in Range(calls)

====
